---- MODULE Spec2Model ----
(***************************************************************************)
(* Model of rhogenson/deque: the ring-buffer deque (types Deque and DQ)    *)
(* and the slice-backed binary min-heap.                                   *)
(*                                                                         *)
(* A deque is the record q = [head, len, cap, arr]: head is the field      *)
(* q.head, len and cap are len(q.buf) and cap(q.buf), and arr is the whole *)
(* backing array q.buf[:cap(q.buf)], indexed 0..cap-1, stale slots         *)
(* included.                                                               *)
(***************************************************************************)
EXTENDS Integers, Sequences, FiniteSets, TLC

VARIABLES variant, q, call, ret, moved, panicked, ref, refRet, it, avail,
          h, hcall, hret, hbal

dvars == <<variant, q, call, ret, moved, panicked, ref, refRet, it, avail>>
hvars == <<h, hcall, hret, hbal>>
vars == <<variant, q, call, ret, moved, panicked, ref, refRet, it, avail,
          h, hcall, hret, hbal>>

\* ------------------------------------------------------------------ bounds
\* Largest capacity the allocator hands out.
MaxCap == 6
\* Largest number of values in one PushFront / PushBack call.
MaxPush == 2
\* Largest argument of Grow.
MaxGrow == 3

\* The zero value of the element type ("var zero T", make([]T, n)).
Zero == 0
\* Element values: the code never inspects an element, two values tell
\* every slot mix-up apart.
Values == {Zero, 1}

Variants == {"Deque", "DQ"}

Min(a, b) == IF a <= b THEN a ELSE b

RECURSIVE SeqsUpTo(_)
SeqsUpTo(n) == IF n = 0 THEN {<<>>}
               ELSE LET S == SeqsUpTo(n - 1)
                    IN  S \cup {Append(s, v) : s \in {t \in S : Len(t) = n - 1}, v \in Values}

\* Argument lists of a push call.
ValLists == SeqsUpTo(MaxPush)

\* ------------------------------------------------------------ slice helpers
\* The builtin copy(arr[lo:hi], src): min(hi-lo, len(src)) elements.
Copy(arr, lo, hi, src) ==
    LET n == Min(hi - lo, Len(src))
    IN  [i \in DOMAIN arr |-> IF lo <= i /\ i < lo + n THEN src[i - lo + 1] ELSE arr[i]]

\* The elements arr[lo:hi] as a sequence.
Slice(arr, lo, hi) == [k \in 1..(hi - lo) |-> arr[lo + k - 1]]

\* values[lo:hi] of an argument list (0-based, half open).
SubVals(V, lo, hi) == SubSeq(V, lo + 1, hi)

\* A slice expression s[lo:hi] on a slice of capacity c is in range.
SliceOK(lo, hi, c) == 0 <= lo /\ lo <= hi /\ hi <= c

\* -------------------------------------------------------------- constructors
ZeroDeque == [head |-> 0, len |-> 0, cap |-> 0, arr |-> [i \in {} |-> Zero]]

WithCapacity(c) == [head |-> 0, len |-> 0, cap |-> c, arr |-> [i \in 0..(c - 1) |-> Zero]]

\* From(slice): slice has length n and backing array a (capacity = size of a).
From(a, n) == [head |-> 0, len |-> n, cap |-> Cardinality(DOMAIN a), arr |-> a]

\* ------------------------------------------------------------------ indexing
\* Mutant of wrapAdd: an index past the end wraps to 0 instead of i - cap.
wrapAddToZero(d, i, addend) ==
    IF i + addend >= d.cap THEN 0 ELSE i + addend

\* Mutant of wrapAdd: an index equal to the capacity is not wrapped.
wrapAddLate(d, i, addend) ==
    IF i + addend > d.cap THEN i + addend - d.cap ELSE i + addend

wrapAdd(d, i, addend) ==
    IF i + addend >= d.cap THEN i + addend - d.cap ELSE i + addend

toPhysicalIdx(d, i) == wrapAdd(d, d.head, i)

DCap(d) == d.cap

DLen(d) == d.len

\* q.buf[:cap(q.buf)][q.toPhysicalIdx(i)]
Elem(d, i) == d.arr[toPhysicalIdx(d, i)]

\* The logical content At(0), ..., At(Len()-1).
Content(d) == [i \in 1..d.len |-> Elem(d, i - 1)]

\* ---------------------------------------------------------------------- Grow
\* Capacities append / slices.Grow may give a deque that has to hold n more
\* elements: any capacity >= len + n (the old one when no growth is needed).
\* Mutant of HasRoom: Grow never reallocates.
HasRoomAlways(d, n) == TRUE

\* Mutant of HasRoom: a request that fills the buffer exactly reallocates.
HasRoomStrict(d, n) == n < d.cap - d.len

\* Grow(n) returns at once: the free slots hold n more elements.
HasRoom(d, n) == n <= d.cap - d.len

AllocChoices(d, n) ==
    IF HasRoom(d, n) THEN {d.cap} ELSE (d.len + n)..MaxCap

NoMove == [kase |-> "none", n |-> 0]

\* Mutant of GrowCase: the tail is moved without testing that the appended
\* space holds it.
GrowCaseNoRoomTest(d, oldCap, newCap) ==
    LET headLen == oldCap - d.head
        tailLen == d.len - headLen
    IN  IF d.head <= oldCap - d.len THEN "A"
        ELSE IF headLen > tailLen THEN "B"
        ELSE "C"

\* Mutant of GrowCase: the tail is moved only if the appended space is larger
\* than it.
GrowCaseStrictRoom(d, oldCap, newCap) ==
    LET headLen == oldCap - d.head
        tailLen == d.len - headLen
    IN  IF d.head <= oldCap - d.len THEN "A"
        ELSE IF headLen > tailLen /\ newCap - oldCap > tailLen THEN "B"
        ELSE "C"

\* Mutant of GrowCase: a region that ends at the last slot counts as wrapped.
GrowCaseStrictNoWrap(d, oldCap, newCap) ==
    LET headLen == oldCap - d.head
        tailLen == d.len - headLen
    IN  IF d.head < oldCap - d.len THEN "A"
        ELSE IF headLen > tailLen /\ newCap - oldCap >= tailLen THEN "B"
        ELSE "C"

\* Mutant of GrowCase: the head segment is moved whenever the region wraps.
GrowCaseAlwaysHead(d, oldCap, newCap) ==
    IF d.head <= oldCap - d.len THEN "A" ELSE "C"

\* Which relocation Grow runs once the backing array has oldCap -> newCap.
GrowCase(d, oldCap, newCap) ==
    LET headLen == oldCap - d.head
        tailLen == d.len - headLen
    IN  IF d.head <= oldCap - d.len THEN "A"
        ELSE IF headLen > tailLen /\ newCap - oldCap >= tailLen THEN "B"
        ELSE "C"

\* Grow(n) with the allocator returning capacity newCap: the new deque and what
\* the relocation did (kase: which of A, B, C ran; n: elements copied).
GrowMove(d, n, newCap) ==
    IF HasRoom(d, n)
    THEN [d |-> d, moved |-> NoMove]
    ELSE LET oldCap  == d.cap
             grown   == [i \in 0..(newCap - 1) |-> IF i < oldCap THEN d.arr[i] ELSE Zero]
             headLen == oldCap - d.head
             tailLen == d.len - headLen
             newHead == newCap - headLen
             kase    == GrowCase(d, oldCap, newCap)
         IN  IF kase = "A"
             THEN [d     |-> [d EXCEPT !.cap = newCap, !.arr = grown],
                   moved |-> [kase |-> "A", n |-> 0]]
             ELSE IF kase = "B"
             THEN [d     |-> [d EXCEPT !.cap = newCap,
                                       !.arr = Copy(grown, oldCap, oldCap + tailLen,
                                                    Slice(grown, 0, tailLen))],
                   moved |-> [kase |-> "B", n |-> tailLen]]
             ELSE [d     |-> [head |-> newHead, len |-> d.len, cap |-> newCap,
                              arr  |-> Copy(grown, newHead, newHead + headLen,
                                            Slice(grown, d.head, d.head + headLen))],
                   moved |-> [kase |-> "C", n |-> headLen]]

Grow(d, n, newCap) == GrowMove(d, n, newCap).d

\* Every slice expression Grow evaluates is in range.
GrowInRange(d, n, newCap) ==
    \/ n <= d.cap - d.len
    \/ LET oldCap  == d.cap
           headLen == oldCap - d.head
           tailLen == d.len - headLen
           newHead == newCap - headLen
           kase    == GrowCase(d, oldCap, newCap)
       IN  \/ kase = "A"
           \/ /\ kase = "B"
              /\ SliceOK(oldCap, oldCap + tailLen, newCap)
              /\ SliceOK(0, tailLen, newCap)
           \/ /\ kase = "C"
              /\ SliceOK(newHead, newHead + headLen, newCap)
              /\ SliceOK(d.head, d.head + headLen, newCap)

\* The copy statements Grow runs: destination buf[lo:hi], source buf[slo:shi].
GrowCopies(d, n, newCap) ==
    IF HasRoom(d, n) THEN {}
    ELSE LET oldCap  == d.cap
             headLen == oldCap - d.head
             tailLen == d.len - headLen
             newHead == newCap - headLen
             kase    == GrowCase(d, oldCap, newCap)
         IN  IF kase = "A" THEN {}
             ELSE IF kase = "B"
             THEN {[lo |-> oldCap, hi |-> oldCap + tailLen, slo |-> 0, shi |-> tailLen]}
             ELSE {[lo |-> newHead, hi |-> newHead + headLen,
                    slo |-> d.head, shi |-> d.head + headLen]}

\* ---------------------------------------------------------------------- pops
NoRet == [val |-> Zero, ok |-> FALSE]

\* Mutant of PopFront: the element is read at the advanced head.
PopFrontReadsNewHead(d) ==
    IF d.len = 0
    THEN [d |-> d, val |-> Zero, ok |-> FALSE]
    ELSE LET e == [d EXCEPT !.head = toPhysicalIdx(d, 1), !.len = d.len - 1]
         IN  [d |-> e, val |-> e.arr[e.head], ok |-> TRUE]

\* Mutant of PopFront: emptiness is tested on the capacity, not the length.
PopFrontTestsCap(d) ==
    IF d.cap = 0
    THEN [d |-> d, val |-> Zero, ok |-> FALSE]
    ELSE LET oldHead == d.head
         IN  [d   |-> [d EXCEPT !.head = toPhysicalIdx(d, 1), !.len = d.len - 1],
              val |-> d.arr[oldHead],
              ok  |-> TRUE]

PopFront(d) ==
    IF d.len = 0
    THEN [d |-> d, val |-> Zero, ok |-> FALSE]
    ELSE LET oldHead == d.head
         IN  [d   |-> [d EXCEPT !.head = toPhysicalIdx(d, 1), !.len = d.len - 1],
              val |-> d.arr[oldHead],
              ok  |-> TRUE]

\* Mutant of PopBack: the element is read at the length before the decrement.
PopBackReadsOldLen(d) ==
    IF d.len = 0
    THEN [d |-> d, val |-> Zero, ok |-> FALSE]
    ELSE LET e == [d EXCEPT !.len = d.len - 1]
         IN  [d |-> e, val |-> e.arr[toPhysicalIdx(d, d.len)], ok |-> TRUE]

PopBack(d) ==
    IF d.len = 0
    THEN [d |-> d, val |-> Zero, ok |-> FALSE]
    ELSE LET e == [d EXCEPT !.len = d.len - 1]
         IN  [d |-> e, val |-> e.arr[toPhysicalIdx(e, e.len)], ok |-> TRUE]

\* The index expressions of the pops are in range.
PopFrontInRange(d) == d.len = 0 \/ (0 <= d.head /\ d.head < d.cap)

PopBackInRange(d) ==
    d.len = 0 \/ LET i == toPhysicalIdx(d, d.len - 1) IN 0 <= i /\ i < d.cap

\* -------------------------------------------------------------------- pushes
\* Mutant of PushFront: the two halves of a split write are exchanged.
PushFrontSwapsHalves(d0, V, newCap) ==
    LET d == Grow(d0, Len(V), newCap)
        k == Len(V)
        e == [d EXCEPT !.len = d.len + k]
    IN  IF e.head >= k
        THEN LET newHead == e.head - k
             IN  [e EXCEPT !.arr = Copy(e.arr, newHead, e.head, V), !.head = newHead]
        ELSE LET tailLen == k - e.head
             IN  [e EXCEPT !.arr = Copy(Copy(e.arr, 0, e.head, SubVals(V, 0, e.head)),
                                        e.cap - tailLen, e.cap, SubVals(V, e.head, k)),
                           !.head = e.cap - tailLen]

PushFront(d0, V, newCap) ==
    LET d == Grow(d0, Len(V), newCap)
        k == Len(V)
        e == [d EXCEPT !.len = d.len + k]
    IN  IF e.head >= k
        THEN LET newHead == e.head - k
             IN  [e EXCEPT !.arr = Copy(e.arr, newHead, e.head, V), !.head = newHead]
        ELSE LET tailLen == k - e.head
             IN  [e EXCEPT !.arr = Copy(Copy(e.arr, 0, e.head, SubVals(V, tailLen, k)),
                                        e.cap - tailLen, e.cap, SubVals(V, 0, tailLen)),
                           !.head = e.cap - tailLen]

PushFrontInRange(d0, V, newCap) ==
    /\ GrowInRange(d0, Len(V), newCap)
    /\ LET d == Grow(d0, Len(V), newCap)
           k == Len(V)
       IN  /\ SliceOK(0, d.len + k, d.cap)
           /\ IF d.head >= k
              THEN SliceOK(d.head - k, d.head, d.cap)
              ELSE LET tailLen == k - d.head
                   IN  /\ SliceOK(0, d.head, d.cap)
                       /\ SliceOK(tailLen, k, k)
                       /\ SliceOK(d.cap - tailLen, d.cap, d.cap)
                       /\ SliceOK(0, tailLen, k)

\* The copy statements PushFront runs after Grow: destination buf[lo:hi],
\* source values[slo:shi].
PushFrontCopies(d0, V, newCap) ==
    LET d == Grow(d0, Len(V), newCap)
        k == Len(V)
    IN  IF d.head >= k
        THEN {[lo |-> d.head - k, hi |-> d.head, slo |-> 0, shi |-> k]}
        ELSE LET tailLen == k - d.head
             IN  {[lo |-> 0, hi |-> d.head, slo |-> tailLen, shi |-> k],
                  [lo |-> d.cap - tailLen, hi |-> d.cap, slo |-> 0, shi |-> tailLen]}

\* Mutant of PushBack: the end-of-occupied index is not wrapped.
PushBackNoWrap(d0, V, newCap, strict) ==
    LET d      == Grow(d0, Len(V), newCap)
        k      == Len(V)
        endIdx == d.head + d.len
        single == IF strict THEN k < d.cap - endIdx ELSE k <= d.cap - endIdx
        headLen == IF d.cap - endIdx > 0 THEN d.cap - endIdx ELSE 0
    IN  IF single
        THEN [d EXCEPT !.arr = Copy(d.arr, endIdx, endIdx + k, V), !.len = d.len + k]
        ELSE [d EXCEPT !.arr = Copy(Copy(d.arr, endIdx, d.cap, SubVals(V, 0, headLen)),
                                    0, k - headLen, SubVals(V, headLen, k)),
                       !.len = d.len + k]

\* strict: the branch test is "<" (DQ) rather than "<=" (Deque).
PushBack(d0, V, newCap, strict) ==
    LET d      == Grow(d0, Len(V), newCap)
        k      == Len(V)
        endIdx == wrapAdd(d, d.head, d.len)
        single == IF strict THEN k < d.cap - endIdx ELSE k <= d.cap - endIdx
        headLen == d.cap - endIdx
    IN  IF single
        THEN [d EXCEPT !.arr = Copy(d.arr, endIdx, endIdx + k, V), !.len = d.len + k]
        ELSE [d EXCEPT !.arr = Copy(Copy(d.arr, endIdx, d.cap, SubVals(V, 0, headLen)),
                                    0, k - headLen, SubVals(V, headLen, k)),
                       !.len = d.len + k]

PushBackInRange(d0, V, newCap, strict) ==
    /\ GrowInRange(d0, Len(V), newCap)
    /\ LET d      == Grow(d0, Len(V), newCap)
           k      == Len(V)
           endIdx == wrapAdd(d, d.head, d.len)
           single == IF strict THEN k < d.cap - endIdx ELSE k <= d.cap - endIdx
           headLen == d.cap - endIdx
       IN  /\ IF single
              THEN SliceOK(endIdx, endIdx + k, d.cap)
              ELSE /\ SliceOK(endIdx, d.cap, d.cap)
                   /\ SliceOK(0, headLen, k)
                   /\ SliceOK(0, k - headLen, d.cap)
                   /\ SliceOK(headLen, k, k)
           /\ SliceOK(0, d.len + k, d.cap)

\* The copy statements PushBack runs after Grow: destination buf[lo:hi],
\* source values[slo:shi].
PushBackCopies(d0, V, newCap, strict) ==
    LET d      == Grow(d0, Len(V), newCap)
        k      == Len(V)
        endIdx == wrapAdd(d, d.head, d.len)
        single == IF strict THEN k < d.cap - endIdx ELSE k <= d.cap - endIdx
        headLen == d.cap - endIdx
    IN  IF single
        THEN {[lo |-> endIdx, hi |-> endIdx + k, slo |-> 0, shi |-> k]}
        ELSE {[lo |-> endIdx, hi |-> d.cap, slo |-> 0, shi |-> headLen],
              [lo |-> 0, hi |-> k - headLen, slo |-> headLen, shi |-> k]}

\* Mutant of AtRangeCheck: the index Len() passes the test.
AtRangeCheckOffByOne(d, i) == 0 <= i /\ i <= d.len

\* The test At makes before it reads: 0 <= i < Len().
AtRangeCheck(d, i) == 0 <= i /\ i < d.len

\* The index expression q.buf[:cap(q.buf)][toPhysicalIdx(i)] is in range.
AtInRange(d, i) ==
    /\ 0 <= toPhysicalIdx(d, i)
    /\ toPhysicalIdx(d, i) < d.cap

\* AvailableBuffer of the older Deque: where the returned slice starts in the
\* backing array, its length and its capacity.
AvailableBuffer(d) ==
    LET endIdx == toPhysicalIdx(d, d.len)
    IN  IF endIdx <= d.head
        THEN [lo |-> endIdx, len |-> 0, cap |-> d.head - endIdx, set |-> TRUE]
        ELSE [lo |-> endIdx, len |-> 0, cap |-> d.cap - endIdx, set |-> TRUE]

\* Both slice expressions of AvailableBuffer are in range.
AvailableBufferInRange(d) ==
    LET endIdx == toPhysicalIdx(d, d.len)
    IN  IF endIdx <= d.head
        THEN 0 <= endIdx /\ d.head <= d.cap
        ELSE 0 <= endIdx /\ endIdx <= d.cap

\* Mutant of Reset: the backing array is dropped.
ResetDropsArray(d) == ZeroDeque

\* Mutant of Reset: the head goes back to slot 0.
ResetClearsHead(d) == [d EXCEPT !.len = 0, !.head = 0]

Reset(d) == [d EXCEPT !.len = 0]

\* ====================================================================== heap
\* Largest number of elements held by the heap (and largest capacity).
MaxHeapLen == 5
\* Largest key.
MaxKey == 3

\* Heap elements: a key the comparator orders by, and a tag it does not see.
Tags == {"a", "b"}
Elems == (1..MaxKey) \X Tags

\* cmp.Compare on the keys.
compare(x, y) == IF x[1] < y[1] THEN -1 ELSE IF x[1] > y[1] THEN 1 ELSE 0

\* Go's integer division truncates toward zero.
GoDiv(a, b) == IF a >= 0 THEN a \div b ELSE -((-a) \div b)

\* The heap is [buf, cap]: buf is h.buf as a function on 0..len-1.
\* The zero value of the heap's element type.
HZero == <<0, "a">>

New == [buf |-> [i \in {} |-> HZero], cap |-> 0]

HLen(hp) == Cardinality(DOMAIN hp.buf)

\* Mutant of Truncate: the slice keeps its length.
TruncateKeepsAll(buf, n) == buf

\* h.buf[:n]
Truncate(buf, n) == [i \in 0..(n - 1) |-> buf[i]]

\* append(h.buf, x)
AppendElem(buf, x) ==
    LET n == Cardinality(DOMAIN buf)
    IN  [i \in 0..n |-> IF i < n THEN buf[i] ELSE x]

\* Mutant of upLoop: the element sifted up is not stored when the loop ends.
RECURSIVE upLoopNoPlacement(_, _, _)
upLoopNoPlacement(buf, j, x) ==
    LET i == GoDiv(j - 1, 2)
    IN  IF i = j \/ compare(x, buf[i]) >= 0
        THEN buf
        ELSE upLoopNoPlacement([buf EXCEPT ![j] = buf[i]], i, x)

\* Mutant of upLoop: the parent index is j/2 instead of (j-1)/2.
RECURSIVE upLoopParentOff(_, _, _)
upLoopParentOff(buf, j, x) ==
    LET i == GoDiv(j, 2)
    IN  IF i = j \/ compare(x, buf[i]) >= 0
        THEN [buf EXCEPT ![j] = x]
        ELSE upLoopParentOff([buf EXCEPT ![j] = buf[i]], i, x)

RECURSIVE upLoop(_, _, _)
upLoop(buf, j, x) ==
    LET i == GoDiv(j - 1, 2)
    IN  IF i = j \/ compare(x, buf[i]) >= 0
        THEN [buf EXCEPT ![j] = x]
        ELSE upLoop([buf EXCEPT ![j] = buf[i]], i, x)

up(buf, j) == upLoop(buf, j, buf[j])

\* Mutant of down: the left child is always chosen.
RECURSIVE downLeftOnly(_, _, _)
downLeftOnly(buf, i, x) ==
    LET n  == Cardinality(DOMAIN buf)
        j1 == 2 * i + 1
        j  == j1
    IN  IF j1 >= n \/ j1 < 0
        THEN [buf EXCEPT ![i] = x]
        ELSE IF compare(x, buf[j]) <= 0
        THEN [buf EXCEPT ![i] = x]
        ELSE downLeftOnly([buf EXCEPT ![i] = buf[j]], j, x)

RECURSIVE down(_, _, _)
down(buf, i, x) ==
    LET n  == Cardinality(DOMAIN buf)
        j1 == 2 * i + 1
        j2 == j1 + 1
        j  == IF j2 < n /\ compare(buf[j2], buf[j1]) < 0 THEN j2 ELSE j1
    IN  IF j1 >= n \/ j1 < 0
        THEN [buf EXCEPT ![i] = x]
        ELSE IF compare(x, buf[j]) <= 0
        THEN [buf EXCEPT ![i] = x]
        ELSE down([buf EXCEPT ![i] = buf[j]], j, x)

\* Capacities append may choose when one more element is pushed.
HeapAllocChoices(hp, n) ==
    IF HLen(hp) + n <= hp.cap THEN {hp.cap} ELSE (HLen(hp) + n)..MaxHeapLen

HeapGrow(hp, newCap) == [hp EXCEPT !.cap = newCap]

Push(hp, x, newCap) ==
    LET n == HLen(hp)
    IN  [buf |-> up(AppendElem(hp.buf, x), n), cap |-> newCap]

\* Mutant of Pop: a Pop of the empty heap drops the backing array.
PopEmptyDropsArray(hp) ==
    IF HLen(hp) = 0
    THEN [h |-> New, val |-> HZero, ok |-> FALSE]
    ELSE LET x    == hp.buf[0]
             last == hp.buf[HLen(hp) - 1]
             cut  == Truncate(hp.buf, HLen(hp) - 1)
         IN  [h   |-> [hp EXCEPT !.buf = IF Cardinality(DOMAIN cut) > 0
                                           THEN down(cut, 0, last) ELSE cut],
              val |-> x,
              ok  |-> TRUE]

Pop(hp) ==
    IF HLen(hp) = 0
    THEN [h |-> hp, val |-> HZero, ok |-> FALSE]
    ELSE LET x    == hp.buf[0]
             last == hp.buf[HLen(hp) - 1]
             cut  == Truncate(hp.buf, HLen(hp) - 1)
         IN  [h   |-> [hp EXCEPT !.buf = IF Cardinality(DOMAIN cut) > 0
                                           THEN down(cut, 0, last) ELSE cut],
              val |-> x,
              ok  |-> TRUE]

\* ============================================================= state machine
NoCall == [op |-> "none", vals |-> <<>>, n |-> 0]

\* No iterator of All or PopAll is alive.
NoIter ==
    [kind |-> "none", st |-> "idle", i |-> 0, n |-> 0,
     idx |-> <<>>, out |-> <<>>, pre |-> <<>>]

\* No slice returned by AvailableBuffer is recorded.
NoAvail == [lo |-> 0, len |-> 0, cap |-> 0, set |-> FALSE]

\* The arrays a caller may hand to From: any content, any spare capacity.
Arrays == UNION {[0..(c - 1) -> Values] : c \in 0..MaxCap}

InitDeque ==
    /\ variant \in Variants
    /\ \/ q = ZeroDeque /\ ref = <<>>
       \/ \E c \in 0..MaxCap : q = WithCapacity(c) /\ ref = <<>>
       \/ \E a \in Arrays : \E n \in 0..Cardinality(DOMAIN a) :
              q = From(a, n) /\ ref = Slice(a, 0, n)
    /\ call = NoCall
    /\ ret = NoRet
    /\ moved = NoMove
    /\ panicked = FALSE
    /\ refRet = NoRet
    /\ it = NoIter
    /\ avail = NoAvail

HNoRet == [val |-> HZero, ok |-> FALSE]

InitHeap ==
    /\ h = New
    /\ hcall = NoCall
    /\ hret = HNoRet
    /\ hbal = 0

Init == InitDeque /\ InitHeap

\* A call whose slice or index expression is out of range panics: the program
\* halts with the deque as it was.
Panic(op, V, n) ==
    /\ panicked' = TRUE
    /\ call' = [op |-> op, vals |-> V, n |-> n]
    /\ UNCHANGED <<variant, q, ret, moved, ref, refRet>>

CallPushFront(V) ==
    /\ ~panicked
    /\ \E newCap \in AllocChoices(q, Len(V)) :
          IF PushFrontInRange(q, V, newCap)
          THEN /\ q' = PushFront(q, V, newCap)
               /\ moved' = GrowMove(q, Len(V), newCap).moved
               /\ call' = [op |-> "PushFront", vals |-> V, n |-> 0]
               /\ ret' = NoRet
               /\ ref' = V \o ref
               /\ refRet' = NoRet
               /\ UNCHANGED <<variant, panicked>>
          ELSE Panic("PushFront", V, 0)
    /\ UNCHANGED hvars

CallPushBack(V) ==
    /\ ~panicked
    /\ \E newCap \in AllocChoices(q, Len(V)) :
          IF PushBackInRange(q, V, newCap, variant # "Deque")
          THEN /\ q' = PushBack(q, V, newCap, variant # "Deque")
               /\ moved' = GrowMove(q, Len(V), newCap).moved
               /\ call' = [op |-> "PushBack", vals |-> V, n |-> 0]
               /\ ret' = NoRet
               /\ ref' = ref \o V
               /\ refRet' = NoRet
               /\ UNCHANGED <<variant, panicked>>
          ELSE Panic("PushBack", V, 0)
    /\ UNCHANGED hvars

CallPopFront ==
    /\ ~panicked
    /\ IF PopFrontInRange(q)
       THEN /\ q' = PopFront(q).d
            /\ ret' = [val |-> PopFront(q).val, ok |-> PopFront(q).ok]
            /\ moved' = NoMove
            /\ call' = [op |-> "PopFront", vals |-> <<>>, n |-> 0]
            /\ ref' = IF ref = <<>> THEN ref ELSE Tail(ref)
            /\ refRet' = IF ref = <<>> THEN NoRet ELSE [val |-> Head(ref), ok |-> TRUE]
            /\ UNCHANGED <<variant, panicked>>
       ELSE Panic("PopFront", <<>>, 0)
    /\ UNCHANGED hvars

CallPopBack ==
    /\ ~panicked
    /\ IF PopBackInRange(q)
       THEN /\ q' = PopBack(q).d
            /\ ret' = [val |-> PopBack(q).val, ok |-> PopBack(q).ok]
            /\ moved' = NoMove
            /\ call' = [op |-> "PopBack", vals |-> <<>>, n |-> 0]
            /\ ref' = IF ref = <<>> THEN ref ELSE SubSeq(ref, 1, Len(ref) - 1)
            /\ refRet' = IF ref = <<>> THEN NoRet
                         ELSE [val |-> ref[Len(ref)], ok |-> TRUE]
            /\ UNCHANGED <<variant, panicked>>
       ELSE Panic("PopBack", <<>>, 0)
    /\ UNCHANGED hvars

CallGrow(n) ==
    /\ ~panicked
    /\ \E newCap \in AllocChoices(q, n) :
          IF GrowInRange(q, n, newCap)
          THEN /\ q' = Grow(q, n, newCap)
               /\ moved' = GrowMove(q, n, newCap).moved
               /\ call' = [op |-> "Grow", vals |-> <<>>, n |-> n]
               /\ ret' = NoRet
               /\ refRet' = NoRet
               /\ UNCHANGED <<variant, panicked, ref>>
          ELSE Panic("Grow", <<>>, n)
    /\ UNCHANGED hvars

\* DQ has no Reset.
CallReset ==
    /\ ~panicked
    /\ variant # "DQ"
    /\ q' = Reset(q)
    /\ moved' = NoMove
    /\ call' = [op |-> "Reset", vals |-> <<>>, n |-> 0]
    /\ ret' = NoRet
    /\ ref' = <<>>
    /\ refRet' = NoRet
    /\ UNCHANGED <<variant, panicked>>
    /\ UNCHANGED hvars

\* One call of a mutator.
Mutate ==
    \/ \E V \in ValLists : CallPushFront(V)
    \/ \E V \in ValLists : CallPushBack(V)
    \/ CallPopFront
    \/ CallPopBack
    \/ \E n \in 0..MaxGrow : CallGrow(n)
    \/ CallReset

Next == Mutate /\ UNCHANGED <<it, avail>>

Spec == Init /\ [][Next]_vars

\* ------------------------------------------------- deque machine with At
\* Indexes handed to At: below, inside and above every logical range.
AtArgs == (0 - 1)..MaxCap

\* At(i), or Get(i) of DQ.  Deque tests the index against Len(); the other
\* variants read the slot whatever it holds, and only the index expression
\* into the whole backing array can stop the program.
CallAt(i) ==
    /\ ~panicked
    /\ IF (variant = "Deque" => AtRangeCheck(q, i)) /\ AtInRange(q, i)
       THEN /\ ret' = [val |-> Elem(q, i), ok |-> TRUE]
            /\ call' = [op |-> "At", vals |-> <<>>, n |-> i]
            /\ moved' = NoMove
            /\ refRet' = IF 0 <= i /\ i < Len(ref)
                          THEN [val |-> ref[i + 1], ok |-> TRUE] ELSE NoRet
            /\ UNCHANGED <<variant, q, ref, panicked>>
       ELSE Panic("At", <<>>, i)
    /\ UNCHANGED hvars

NextAt ==
    \/ Mutate /\ UNCHANGED <<it, avail>>
    \/ \E i \in AtArgs : CallAt(i) /\ UNCHANGED <<it, avail>>

SpecAt == Init /\ [][NextAt]_vars

\* ------------------------------------------ deque machine with iterators
\* it.kind: which method made the iterator; it.st: "created" once the method
\* has returned, "running" once the consumer has started the loop; it.i: the
\* loop variable; it.n: the length the loop header or PopAll has snapshotted;
\* it.idx, it.out: the indexes and values yielded so far; it.pre: the content
\* of the deque when the method was called.
IterStep(op) ==
    /\ call' = [op |-> op, vals |-> <<>>, n |-> 0]
    /\ ret' = NoRet
    /\ moved' = NoMove
    /\ refRet' = NoRet
    /\ UNCHANGED <<variant, panicked, avail>>
    /\ UNCHANGED hvars

\* Mutant of PopAllEager: PopAll of DQ truncates the buffer as well.
PopAllEagerAlways(v) == TRUE

\* PopAll of Deque truncates the buffer before it returns the iterator; PopAll
\* of DQ touches nothing until the iterator runs.
PopAllEager(v) == v # "DQ"

\* Mutant of PopAllElem: the slot is counted from the start of the array.
PopAllElemFromZero(d, i) == d.arr[i]

\* The element PopAll of Deque yields in round i: slot i past the head.
PopAllElem(d, i) == d.arr[toPhysicalIdx(d, i)]

\* Mutant of AllBound: the loop of Deque runs over every slot of the array.
AllBoundCap(v, d, itr) == IF v = "Deque" THEN d.cap ELSE itr.n

\* Mutant of AllBound: the loop stops one round early.
AllBoundSkipsLast(v, d, itr) == IF v = "Deque" THEN d.len - 1 ELSE itr.n - 1

\* All of Deque tests i < len(q.buf) on every round; All of DQ ranges over the
\* length read when the loop starts.
AllBound(v, d, itr) == IF v = "Deque" THEN d.len ELSE itr.n

CallAll ==
    /\ ~panicked /\ it.st = "idle"
    /\ it' = [NoIter EXCEPT !.kind = "All", !.st = "created", !.pre = Content(q)]
    /\ UNCHANGED <<q, ref>>
    /\ IterStep("All")

CallPopAll ==
    /\ ~panicked /\ it.st = "idle"
    /\ it' = [NoIter EXCEPT !.kind = "PopAll", !.st = "created",
                            !.n = IF PopAllEager(variant) THEN q.len ELSE 0,
                            !.pre = Content(q)]
    /\ q' = IF PopAllEager(variant) THEN [q EXCEPT !.len = 0] ELSE q
    /\ ref' = IF PopAllEager(variant) THEN <<>> ELSE ref
    /\ IterStep("PopAll")

\* The consumer starts ranging over the iterator.
IterBegin ==
    /\ ~panicked /\ it.st = "created"
    /\ it' = [it EXCEPT !.st = "running",
                        !.n = IF it.kind = "All" /\ variant # "Deque"
                              THEN q.len ELSE @]
    /\ UNCHANGED <<q, ref>>
    /\ IterStep("Begin")

\* One round of All: yield(i, element i), the consumer asks for more.
YieldAll ==
    /\ ~panicked /\ it.kind = "All" /\ it.st = "running"
    /\ it.i < AllBound(variant, q, it)
    /\ IF AtInRange(q, it.i)
       THEN /\ it' = [it EXCEPT !.i = @ + 1,
                                !.idx = Append(@, it.i),
                                !.out = Append(@, Elem(q, it.i))]
            /\ UNCHANGED <<q, ref>>
            /\ IterStep("Yield")
       ELSE Panic("Yield", <<>>, it.i) /\ UNCHANGED <<it, avail>> /\ UNCHANGED hvars

\* One round of PopAll.  Deque reads slot i past the head of the truncated
\* buffer; DQ pops the front element and yields it.
YieldPopAll ==
    /\ ~panicked /\ it.kind = "PopAll" /\ it.st = "running"
    /\ IF PopAllEager(variant)
       THEN /\ it.i < it.n
            /\ IF AtInRange(q, it.i)
               THEN /\ it' = [it EXCEPT !.i = @ + 1,
                                        !.out = Append(@, PopAllElem(q, it.i))]
                    /\ UNCHANGED <<q, ref>>
                    /\ IterStep("Yield")
               ELSE Panic("Yield", <<>>, it.i) /\ UNCHANGED <<it, avail>>
                    /\ UNCHANGED hvars
       ELSE /\ q.len > 0
            /\ IF PopFrontInRange(q)
               THEN /\ it' = [it EXCEPT !.i = @ + 1, !.out = Append(@, PopFront(q).val)]
                    /\ q' = PopFront(q).d
                    /\ ref' = IF ref = <<>> THEN ref ELSE Tail(ref)
                    /\ IterStep("Yield")
               ELSE Panic("Yield", <<>>, it.i) /\ UNCHANGED <<it, avail>>
                    /\ UNCHANGED hvars

\* The loop of the iterator has nothing left to yield and returns.
IterExhausted ==
    \/ it.kind = "All" /\ ~(it.i < AllBound(variant, q, it))
    \/ it.kind = "PopAll" /\ PopAllEager(variant) /\ ~(it.i < it.n)
    \/ it.kind = "PopAll" /\ ~PopAllEager(variant) /\ q.len = 0

IterReturn ==
    /\ ~panicked /\ it.st = "running" /\ IterExhausted
    /\ it' = NoIter
    /\ UNCHANGED <<q, ref>>
    /\ IterStep("Return")

\* The consumer breaks out of the loop after a yield, or drops an iterator it
\* never started.
IterBreak ==
    /\ ~panicked
    /\ \/ it.st = "created"
       \/ it.st = "running" /\ it.out # <<>>
    /\ it' = NoIter
    /\ UNCHANGED <<q, ref>>
    /\ IterStep("Break")

NextIter ==
    \/ it.st = "idle" /\ Mutate /\ UNCHANGED <<it, avail>>
    \/ CallAll
    \/ CallPopAll
    \/ IterBegin
    \/ YieldAll
    \/ YieldPopAll
    \/ IterReturn
    \/ IterBreak

SpecIter == Init /\ [][NextIter]_vars

\* ------------------- deque machine with an All callback that removes
\* The body of the consumer's loop over All pops or resets the deque after a
\* yield, any number of times, before it asks for the next pair or breaks.
CallbackRemoves ==
    /\ ~panicked
    /\ it.kind = "All" /\ it.st = "running" /\ it.out # <<>>
    /\ \/ /\ PopFrontInRange(q)
          /\ q' = PopFront(q).d
          /\ ref' = IF ref = <<>> THEN ref ELSE Tail(ref)
       \/ /\ PopBackInRange(q)
          /\ q' = PopBack(q).d
          /\ ref' = IF ref = <<>> THEN ref ELSE SubSeq(ref, 1, Len(ref) - 1)
       \/ /\ variant # "DQ"
          /\ q' = Reset(q)
          /\ ref' = <<>>
    /\ it' = it
    /\ IterStep("Body")

NextAllMut ==
    \/ it.st = "idle" /\ Mutate /\ UNCHANGED <<it, avail>>
    \/ CallAll
    \/ IterBegin
    \/ YieldAll
    \/ IterReturn
    \/ IterBreak
    \/ CallbackRemoves

SpecAllMut == Init /\ [][NextAllMut]_vars

\* Once started, the loop of an iterator goes on whenever the consumer's body
\* has returned: its next round or its return is taken eventually.
SpecAllMutFair == SpecAllMut /\ WF_vars(YieldAll \/ IterReturn)

\* ------------------------------- machine of the Deque with AvailableBuffer
\* The older Deque of part_002: DQ's methods with Reset, AvailableBuffer and a
\* PopAll that truncates first.
InitAB ==
    /\ variant = "DequeAB"
    /\ \/ q = ZeroDeque /\ ref = <<>>
       \/ \E c \in 0..MaxCap : q = WithCapacity(c) /\ ref = <<>>
       \/ \E a \in Arrays : \E n \in 0..Cardinality(DOMAIN a) :
              q = From(a, n) /\ ref = Slice(a, 0, n)
    /\ call = NoCall /\ ret = NoRet /\ moved = NoMove
    /\ panicked = FALSE /\ refRet = NoRet
    /\ it = NoIter /\ avail = NoAvail
    /\ InitHeap

CallAvailableBuffer ==
    /\ ~panicked
    /\ variant = "DequeAB"
    /\ IF AvailableBufferInRange(q)
       THEN /\ avail' = AvailableBuffer(q)
            /\ call' = [op |-> "AvailableBuffer", vals |-> <<>>, n |-> 0]
            /\ ret' = NoRet
            /\ moved' = NoMove
            /\ refRet' = NoRet
            /\ UNCHANGED <<variant, q, ref, panicked, it>>
       ELSE Panic("AvailableBuffer", <<>>, 0) /\ UNCHANGED <<it, avail>>
    /\ UNCHANGED hvars

\* The slice is valid until the next push only: every mutator forgets it.
NextAB ==
    \/ Mutate /\ avail' = NoAvail /\ UNCHANGED it
    \/ CallAvailableBuffer

SpecAB == InitAB /\ [][NextAB]_vars

\* ------------------------------------------------------------ heap machine
HeapPush(x) ==
    /\ \E newCap \in HeapAllocChoices(h, 1) :
          h' = Push(h, x, newCap)
    /\ hcall' = [op |-> "Push", vals |-> <<x>>, n |-> 0]
    /\ hret' = HNoRet
    /\ hbal' = hbal + 1
    /\ UNCHANGED dvars

HeapPop ==
    /\ h' = Pop(h).h
    /\ hret' = [val |-> Pop(h).val, ok |-> Pop(h).ok]
    /\ hcall' = [op |-> "Pop", vals |-> <<>>, n |-> 0]
    /\ hbal' = IF Pop(h).ok THEN hbal - 1 ELSE hbal
    /\ UNCHANGED dvars

HeapCallGrow(n) ==
    /\ \E newCap \in HeapAllocChoices(h, n) :
          h' = HeapGrow(h, newCap)
    /\ hcall' = [op |-> "Grow", vals |-> <<>>, n |-> n]
    /\ hret' = HNoRet
    /\ hbal' = hbal
    /\ UNCHANGED dvars

NextHeap ==
    \/ \E x \in Elems : HeapPush(x)
    \/ HeapPop
    \/ \E n \in 0..MaxHeapLen : HeapCallGrow(n)

InitHeapOnly ==
    /\ variant = "Deque"
    /\ q = ZeroDeque /\ ref = <<>>
    /\ call = NoCall /\ ret = NoRet /\ moved = NoMove
    /\ panicked = FALSE /\ refRet = NoRet
    /\ it = NoIter /\ avail = NoAvail
    /\ InitHeap

SpecHeap == InitHeapOnly /\ [][NextHeap]_vars

\* ==================================================================== claims
\* The occupied region of d wraps around the end of the backing array.
Wrapped(d) == d.head + d.len > d.cap

\* C1: after every sequence of PushFront, PushBack, PopFront, PopBack, Grow and
\* Reset from any constructor, Len(), At(i) for each i and the value/ok of the
\* last pop equal those of the reference sequence, and no call has panicked.
C1_RefinesReference ==
    /\ ~panicked
    /\ DLen(q) = Len(ref)
    /\ Content(q) = ref
    /\ ret = refRet

\* A pop has returned an element of a wrapped deque with mixed content.
C1_Witness ==
    /\ call.op = "PopBack" /\ ret.ok /\ ret.val = 1
    /\ Wrapped(q) /\ q.len >= 3 /\ q.cap > 3
    /\ ref[1] # ref[2]

\* C2: a Grow(n) with Cap()-Len() < n leaves Cap()-Len() >= n, Len() unchanged
\* and the logical content unchanged, in every relocation case and for every
\* capacity the allocator chooses.
C2_GrowPreservesContent ==
    [][(call'.op = "Grow" /\ call'.n > DCap(q) - DLen(q) /\ ~panicked)
          => /\ ~panicked'
             /\ DCap(q') - DLen(q') >= call'.n
             /\ DLen(q') = DLen(q)
             /\ Content(q') = Content(q)]_vars

\* Grow has moved the head segment of a wrapped deque with mixed content.
C2_Witness ==
    /\ call.op = "Grow" /\ moved.kase = "C" /\ moved.n >= 2
    /\ Wrapped(q) /\ q.len >= 4
    /\ \E i \in 1..q.len : Content(q)[i] # Content(q)[1]

\* Segment lengths of a wrapped deque d: [head, cap) and [0, len - headLen).
HeadLen(d) == d.cap - d.head
TailLen(d) == d.len - HeadLen(d)

C4_PushFrontPrepends ==
    [][(call'.op = "PushFront" /\ ~panicked)
          => /\ ~panicked'
             /\ Content(q') = call'.vals \o Content(q)]_vars

\* PushFront of two different values has grown the deque and written them on
\* both sides of physical index 0.
C4_Witness ==
    /\ call.op = "PushFront" /\ call.vals = <<1, 0>>
    /\ moved.kase # "none"
    /\ q.head = q.cap - 1
    /\ q.len >= 4

\* C5: PushBack(V) makes the content the old content followed by V, also when
\* the deque grows first, when the end index has wrapped and when the write is
\* split, with the "<" test of DQ and the "<=" test of Deque.
C5_PushBackAppends ==
    [][(call'.op = "PushBack" /\ ~panicked)
          => /\ ~panicked'
             /\ Content(q') = Content(q) \o call'.vals]_vars

\* DQ's PushBack of two different values has filled the buffer exactly to its
\* physical end (where "<" and "<=" take different branches).
C5_Witness ==
    /\ variant = "DQ"
    /\ call.op = "PushBack" /\ call.vals = <<0, 1>>
    /\ q.head > 0 /\ q.head + q.len = q.cap
    /\ q.len >= 3

\* C8: PopFront on content e0..en-1 (n > 0) returns (e0, true), the element at
\* physical index head; afterwards the content is e1..en-1, Len() is n-1,
\* Cap() is unchanged and head is (head+1) mod Cap().
C8_PopFrontRemovesFirst ==
    [][(call'.op = "PopFront" /\ DLen(q) > 0 /\ ~panicked)
          => /\ ~panicked'
             /\ ret' = [val |-> Content(q)[1], ok |-> TRUE]
             /\ ret'.val = q.arr[q.head]
             /\ Content(q') = Tail(Content(q))
             /\ DLen(q') = DLen(q) - 1
             /\ DCap(q') = DCap(q)
             /\ q'.head = (q.head + 1) % DCap(q)]_vars

\* PopFront has returned the element of the last physical slot: head is back
\* at 0 and elements remain.
C8_Witness ==
    /\ call.op = "PopFront" /\ ret = [val |-> 1, ok |-> TRUE]
    /\ q.head = 0 /\ q.cap >= 3 /\ q.len >= 2
    /\ q.arr[q.cap - 1] = 1 /\ Content(q)[1] = 0

\* C9: PopBack on content e0..en-1 (n > 0) returns (en-1, true), the element at
\* physical index (head+n-1) mod Cap(); afterwards the content is e0..en-2,
\* Len() is n-1 and head and Cap() are unchanged.
C9_PopBackRemovesLast ==
    [][(call'.op = "PopBack" /\ DLen(q) > 0 /\ ~panicked)
          => /\ ~panicked'
             /\ ret' = [val |-> Content(q)[DLen(q)], ok |-> TRUE]
             /\ ret'.val = q.arr[(q.head + DLen(q) - 1) % DCap(q)]
             /\ Content(q') = SubSeq(Content(q), 1, DLen(q) - 1)
             /\ DLen(q') = DLen(q) - 1
             /\ q'.head = q.head
             /\ DCap(q') = DCap(q)]_vars

\* PopBack has returned an element of the wrapped part of the region.
C9_Witness ==
    /\ call.op = "PopBack" /\ ret = [val |-> 1, ok |-> TRUE]
    /\ q.head + q.len >= q.cap + 1
    /\ Content(q)[q.len] = 0

\* C10: PopFront and PopBack on an empty deque, whatever its capacity and head,
\* return the zero value with ok = false, do not panic and leave head, Len()
\* and Cap() unchanged.
C10_PopEmpty ==
    [][(call'.op \in {"PopFront", "PopBack"} /\ DLen(q) = 0 /\ ~panicked)
          => /\ ~panicked'
             /\ ret' = [val |-> Zero, ok |-> FALSE]
             /\ q'.head = q.head
             /\ DLen(q') = 0
             /\ DCap(q') = DCap(q)]_vars

\* A pop has found the deque empty with its head inside the buffer.
C10_Witness ==
    /\ call.op = "PopFront" /\ ~ret.ok
    /\ q.len = 0 /\ q.cap >= 2 /\ q.head > 0
    /\ \E i \in DOMAIN q.arr : q.arr[i] # Zero

\* C6: every successful Pop of the heap returns an element that is minimal
\* among the elements held just before the call, so two successful pops in a
\* row return elements in non-decreasing comparator order.
C6_PopReturnsMinimum ==
    [][(hcall'.op = "Pop" /\ hret'.ok)
          => /\ \A k \in DOMAIN h.buf : compare(hret'.val, h.buf[k]) <= 0
             /\ (hcall.op = "Pop" /\ hret.ok) => compare(hret.val, hret'.val) <= 0]_vars

\* A Pop has returned key 2 and left a heap of three elements or more, all of
\* key 3.
C6_Witness ==
    /\ hcall.op = "Pop" /\ hret.ok /\ hret.val[1] = 2
    /\ HLen(h) >= 3
    /\ \A k \in DOMAIN h.buf : h.buf[k][1] = 3

\* C7: in every state reached by New, Push, Pop and Grow no child strictly
\* precedes its parent: compare(buf[k], buf[(k-1)/2]) >= 0 for 0 < k < Len().
C7_HeapInvariant ==
    \A k \in DOMAIN h.buf :
        k > 0 => compare(h.buf[k], h.buf[GoDiv(k - 1, 2)]) >= 0

\* A Pop has sifted the last element down a full heap with distinct keys on
\* its levels.
C7_Witness ==
    /\ hcall.op = "Pop" /\ hret.ok
    /\ HLen(h) = MaxHeapLen - 1
    /\ h.buf[0][1] < h.buf[1][1] /\ h.buf[1][1] < h.buf[3][1]
    /\ h.buf[2][1] < h.buf[1][1]

\* C11: Deque.At(i) panics for every i < 0 and every i >= Len(), also when the
\* slot the index maps to still holds an old value; for 0 <= i < Len() it
\* returns the element at logical position i and leaves the deque as it was.
C11_AtChecksRange ==
    [][(call'.op = "At" /\ variant = "Deque" /\ ~panicked)
          => /\ panicked' <=> (call'.n < 0 \/ call'.n >= DLen(q))
             /\ q' = q
             /\ ~panicked' => ret' = [val |-> Content(q)[call'.n + 1], ok |-> TRUE]]_vars

\* At has panicked on an index past Len() whose slot lies inside the buffer
\* and holds an old non-zero value.
C11_Witness ==
    /\ variant = "Deque" /\ call.op = "At" /\ panicked
    /\ call.n >= DLen(q) /\ DLen(q) > 0
    /\ AtInRange(q, call.n) /\ Elem(q, call.n) # Zero

\* C12: Cap() >= Len() in every reachable state, and no step of PushFront,
\* PushBack, PopFront, PopBack, Grow, Reset, All or PopAll, nor of their
\* iterators, leaves Cap() smaller than it was.
C12_CapNeverShrinks ==
    /\ [](DCap(q) >= DLen(q))
    /\ [][DCap(q') >= DCap(q)]_vars

\* A PopAll iterator has yielded two elements or more of a deque that was
\* full at capacity MaxCap, and the capacity is still MaxCap.
C12_Witness ==
    /\ it.kind = "PopAll" /\ Len(it.out) >= 2
    /\ Len(it.pre) = MaxCap /\ DCap(q) = MaxCap

\* C13 as stated: a push of k values into a deque with at least k free slots
\* leaves Cap() as it was and relocates nothing, pops and Reset leave Cap() as
\* it was, WithCapacity(c) has Cap() = c, and a Grow(c) that reallocates an
\* empty deque leaves Cap() = c exactly.
C13_GrowGivesExactCap ==
    /\ \A c \in 0..MaxCap : DCap(WithCapacity(c)) = c
    /\ [][/\ (call'.op \in {"PushFront", "PushBack"} /\ ~panicked
                /\ Len(call'.vals) <= DCap(q) - DLen(q))
              => (~panicked' /\ DCap(q') = DCap(q) /\ moved' = NoMove)
          /\ call'.op \in {"PopFront", "PopBack", "Reset"} => DCap(q') = DCap(q)
          /\ (call'.op = "Grow" /\ ~panicked' /\ DLen(q) = 0 /\ call'.n > DCap(q))
              => DCap(q') = call'.n]_vars

\* C13: a push of k values into a deque with at least k free slots leaves
\* Cap() as it was and relocates nothing, pops and Reset leave Cap() as it
\* was, WithCapacity(c) has Cap() = c, and a Grow(c) that reallocates an empty
\* deque leaves some Cap() >= c, which the deque then keeps while its length
\* stays within it.
C13_PushWithinCapKeepsCap ==
    /\ \A c \in 0..MaxCap : DCap(WithCapacity(c)) = c
    /\ [][/\ (call'.op \in {"PushFront", "PushBack"} /\ ~panicked
                /\ Len(call'.vals) <= DCap(q) - DLen(q))
              => (~panicked' /\ DCap(q') = DCap(q) /\ moved' = NoMove)
          /\ call'.op \in {"PopFront", "PopBack", "Reset"} => DCap(q') = DCap(q)
          /\ (call'.op = "Grow" /\ ~panicked' /\ DLen(q) = 0 /\ call'.n > DCap(q))
              => DCap(q') >= call'.n]_vars

\* A push of two values has filled a wrapped deque to its capacity without
\* reallocating.
C13_Witness ==
    /\ call.op \in {"PushFront", "PushBack"} /\ Len(call.vals) = MaxPush
    /\ moved = NoMove /\ ~panicked
    /\ DLen(q) = DCap(q) /\ DCap(q) >= 3 /\ Wrapped(q)

\* The values of s from position k + 1 on.
Rest(s, k) == SubSeq(s, k + 1, Len(s))

\* C14: when a PopAll iterator returns because nothing is left, it has
\* yielded exactly the content the deque had when PopAll was called, front to
\* back, and Len() = 0; that content is the list built by the calls so far,
\* each PushFront(F) putting F before it and each PushBack(B) putting B after.
C14_PopAllDrainsInOrder ==
    [][/\ call'.op = "PopAll" => it'.pre = ref
       /\ (call'.op = "Return" /\ it.kind = "PopAll")
             => (it.out = it.pre /\ DLen(q') = 0 /\ DLen(q) = 0)]_vars

\* A PopAll iterator of Deque has yielded the whole of a wrapped content of
\* three or more elements, not all equal, and is about to return.
C14_Witness ==
    /\ variant = "Deque" /\ it.kind = "PopAll" /\ it.st = "running"
    /\ IterExhausted /\ it.out = it.pre
    /\ it.n >= 3 /\ q.head + it.n > q.cap
    /\ \E j, k \in DOMAIN it.out : it.out[j] # it.out[k]

\* C15 as stated: for Deque and DQ alike, once PopAll has yielded k elements
\* the deque holds the other n - k in order, and an iterator not yet run has
\* removed nothing.
C15_PopAllDrainsAsConsumed ==
    it.kind = "PopAll"
       => /\ Len(it.out) <= Len(it.pre)
          /\ Content(q) = Rest(it.pre, Len(it.out))

\* C15: the values a PopAll iterator has yielded are the first k of the
\* content at the call.  With DQ the deque then holds the other n - k in
\* order, as after k PopFront calls, and an iterator not yet run has removed
\* nothing; with Deque the deque is empty from the call of PopAll on, whether
\* the iterator is run to the end, left early or never run.  Leaving the loop
\* changes nothing.
C15_PopAllLazyOnlyInDQ ==
    /\ [](it.kind = "PopAll"
            => /\ Len(it.out) <= Len(it.pre)
               /\ it.out = SubSeq(it.pre, 1, Len(it.out))
               /\ Content(q) = IF variant = "DQ"
                                THEN Rest(it.pre, Len(it.out)) ELSE <<>>)
    /\ [][call'.op \in {"Break", "Return", "Begin"} => q' = q]_vars

\* A PopAll iterator of DQ has yielded two elements of five or more and the
\* deque still holds the others.
C15_Witness ==
    /\ variant = "DQ" /\ it.kind = "PopAll" /\ it.st = "running"
    /\ Len(it.out) = 2 /\ Len(it.pre) >= 5
    /\ DLen(q) = Len(it.pre) - 2

\* C16: Reset leaves Len() = 0 and Cap() as it was and does not move the
\* head; a PushBack or PushFront of V right after it leaves the content V.
C16_ResetEmpties ==
    [][/\ (call'.op = "Reset" /\ ~panicked)
          => (~panicked' /\ DLen(q') = 0 /\ DCap(q') = DCap(q)
              /\ q'.head = q.head /\ Content(q') = <<>>)
       /\ (call.op = "Reset" /\ ~panicked /\ call'.op \in {"PushFront", "PushBack"})
          => (~panicked' /\ Content(q') = call'.vals)]_vars

\* Reset has emptied a deque whose head is inside the buffer and whose slots
\* still hold old values.
C16_Witness ==
    /\ call.op = "Reset" /\ ~panicked
    /\ DLen(q) = 0 /\ q.head > 0 /\ DCap(q) >= 3
    /\ \E i \in DOMAIN q.arr : q.arr[i] # Zero

\* C17: an All iterator yields the pairs (i, At(i)) for i = 0, 1, ... in
\* order, Len() of them when it runs to the end, also when the occupied
\* region wraps; creating it, running it, leaving it early and running it to
\* the end leave head, Len(), Cap() and the buffer as they were.
C17_AllYieldsContent ==
    /\ [](it.kind = "All"
            => /\ Len(it.out) <= DLen(q)
               /\ Len(it.idx) = Len(it.out)
               /\ \A k \in DOMAIN it.out :
                      it.idx[k] = k - 1 /\ it.out[k] = Content(q)[k]
               /\ it.pre = Content(q))
    /\ [][(it.kind = "All" \/ it'.kind = "All") => q' = q]_vars
    /\ [][(call'.op = "Return" /\ it.kind = "All") => Len(it.out) = DLen(q)]_vars

\* An All iterator has yielded every element of a wrapped deque of three or
\* more elements, not all equal.
C17_Witness ==
    /\ it.kind = "All" /\ it.st = "running"
    /\ Len(it.out) = DLen(q) /\ DLen(q) >= 3 /\ Wrapped(q)
    /\ \E j, k \in DOMAIN it.out : it.out[j] # it.out[k]

\* Physical slot p of d holds no element of the content.
FreeSlot(d, p) == \A i \in 0..(d.len - 1) : toPhysicalIdx(d, i) # p

\* C20: the slice AvailableBuffer returns has length 0 and capacity exactly
\* Cap() - Len(), for an empty deque, a deque that does not wrap and has
\* head > 0, and a deque that wraps alike; it starts at the slot after the
\* last element and covers free slots only.
C20_AvailableBufferCap ==
    (call.op = "AvailableBuffer" /\ ~panicked)
       => /\ avail.len = 0
          /\ avail.cap = DCap(q) - DLen(q)
          /\ avail.lo = toPhysicalIdx(q, DLen(q))
          /\ \A p \in avail.lo..(avail.lo + avail.cap - 1) :
                 p < DCap(q) /\ FreeSlot(q, p)

\* C20, what the code does instead: AvailableBuffer returns a slice of the free slots from the
\* slot after the last element up to the head, or up to the end of the array
\* when the head does not lie after it; none when that slot is the head.
C20_AvailableBufferContiguous ==
    (call.op = "AvailableBuffer" /\ ~panicked)
       => /\ avail.len = 0
          /\ avail.lo = toPhysicalIdx(q, DLen(q))
          /\ avail.cap = IF avail.lo <= q.head THEN q.head - avail.lo
                                               ELSE DCap(q) - avail.lo
          /\ avail.cap <= DCap(q) - DLen(q)
          /\ \A p \in avail.lo..(avail.lo + avail.cap - 1) :
                 p < DCap(q) /\ FreeSlot(q, p)

\* AvailableBuffer has returned a slice of capacity 0 for an empty deque
\* that has three free slots or more.
C20_Witness ==
    /\ call.op = "AvailableBuffer" /\ ~panicked
    /\ DLen(q) = 0 /\ DCap(q) >= 3 /\ avail.cap = 0

\* C18: the heap's Len() is the number of Push calls minus the number of
\* successful Pop calls made so far; a Grow and a Pop of the empty heap leave
\* Len() as it was.
C18_LenCountsPushesLessPops ==
    /\ [](HLen(h) = hbal)
    /\ [][/\ hcall'.op = "Grow" => HLen(h') = HLen(h)
          /\ (hcall'.op = "Pop" /\ ~hret'.ok) => HLen(h') = HLen(h)
          /\ hcall'.op = "Push" => HLen(h') = HLen(h) + 1
          /\ (hcall'.op = "Pop" /\ hret'.ok) => HLen(h') = HLen(h) - 1]_vars

\* A successful Pop has left two elements in a heap with spare capacity.
C18_Witness ==
    /\ hcall.op = "Pop" /\ hret.ok
    /\ HLen(h) = 2 /\ hbal = 2 /\ h.cap > 3

\* C19: a Pop of the empty heap returns the zero value and false and leaves
\* the heap as it was, however often it is repeated; a value pushed after it
\* is held, and a successful Pop returns a minimum of the elements held.
C19_PopEmptyHeap ==
    [][/\ (hcall'.op = "Pop" /\ HLen(h) = 0) => (hret' = HNoRet /\ h' = h)
       /\ (hcall.op = "Pop" /\ ~hret.ok /\ hcall'.op = "Push")
             => (HLen(h') = 1 /\ h'.buf[0] = hcall'.vals[1])
       /\ (hcall.op = "Push" /\ HLen(h) = 1 /\ hcall'.op = "Pop")
             => (hret' = [val |-> hcall.vals[1], ok |-> TRUE] /\ HLen(h') = 0)]_vars

\* A Pop has found the heap empty, its backing array allocated and every
\* element pushed so far popped again.
C19_Witness ==
    /\ hcall.op = "Pop" /\ ~hret.ok
    /\ HLen(h) = 0 /\ h.cap >= 2 /\ hbal = 0

\* C21: in every state reached by the constructors, PushFront, PushBack,
\* PopFront, PopBack, Grow, Reset and PopAll, 0 <= head < Cap() when
\* Cap() > 0, head = 0 when Cap() = 0, and 0 <= Len() <= Cap().
C21_StructuralInvariant ==
    /\ DCap(q) > 0 => (0 <= q.head /\ q.head < DCap(q))
    /\ DCap(q) = 0 => q.head = 0
    /\ 0 <= DLen(q) /\ DLen(q) <= DCap(q)

\* The first round of a PopAll of DQ has popped the element in the last slot
\* of the array and the head has wrapped to slot 0.
C21_Witness ==
    /\ variant = "DQ" /\ it.kind = "PopAll" /\ Len(it.out) = 1
    /\ q.head = 0 /\ DCap(q) >= 3 /\ DLen(q) >= 2

\* C22 as stated: whenever Grow reallocates a deque whose occupied region
\* wraps and whose tail segment fits the appended space
\* (tailLen <= newCap - oldCap), it copies the tail segment to
\* [oldCap, oldCap + tailLen) and leaves head unchanged.
C22_TailMovedWhenItFits ==
    [][(call'.op = "Grow" /\ ~panicked' /\ ~HasRoom(q, call'.n)
          /\ Wrapped(q) /\ TailLen(q) <= DCap(q') - DCap(q))
          => /\ moved' = [kase |-> "B", n |-> TailLen(q)]
             /\ q'.head = q.head
             /\ \A k \in 0..(TailLen(q) - 1) : q'.arr[DCap(q) + k] = q.arr[k]]_vars

\* C22: whenever Grow reallocates a deque whose occupied region wraps, whose
\* tail segment is shorter than its head segment (tailLen < headLen) and fits
\* the appended space (tailLen <= newCap - oldCap), it copies the tail segment
\* to [oldCap, oldCap + tailLen), leaves head and every slot below oldCap
\* unchanged; a wrapped deque whose tail is not the shorter segment has its
\* head segment moved instead, whatever the appended space.
C22_ShorterTailMovedWhenItFits ==
    [][(call'.op = "Grow" /\ ~panicked' /\ ~HasRoom(q, call'.n) /\ Wrapped(q))
          => /\ (HeadLen(q) > TailLen(q) /\ TailLen(q) <= DCap(q') - DCap(q))
                => /\ moved' = [kase |-> "B", n |-> TailLen(q)]
                   /\ q'.head = q.head
                   /\ \A k \in 0..(TailLen(q) - 1) : q'.arr[DCap(q) + k] = q.arr[k]
                   /\ \A k \in 0..(DCap(q) - 1) : q'.arr[k] = q.arr[k]
             /\ HeadLen(q) <= TailLen(q)
                => /\ moved' = [kase |-> "C", n |-> HeadLen(q)]
                   /\ q'.head = DCap(q') - HeadLen(q)]_vars

\* Grow has moved the tail of a deque of four or more elements into an
\* appended space it fills exactly.
C22_Witness ==
    /\ call.op = "Grow" /\ moved.kase = "B" /\ moved.n >= 1
    /\ q.head + DLen(q) = DCap(q) /\ DLen(q) >= 4
    /\ \E i \in 1..q.len : Content(q)[i] # Content(q)[1]

\* C23: whenever Grow reallocates a deque whose occupied region does not wrap
\* (head <= oldCap - Len()), it moves no element and leaves head unchanged:
\* every slot of the old array, occupied or not, holds the value it held
\* before, Len() is unchanged and only the capacity grows.
C23_NoWrapNothingMoved ==
    [][(call'.op = "Grow" /\ ~panicked /\ ~HasRoom(q, call'.n)
          /\ q.head <= DCap(q) - DLen(q))
          => /\ ~panicked'
             /\ moved' = [kase |-> "A", n |-> 0]
             /\ q'.head = q.head /\ DLen(q') = DLen(q)
             /\ DCap(q') >= DLen(q) + call'.n
             /\ \A k \in 0..(DCap(q) - 1) : q'.arr[k] = q.arr[k]
             /\ \A k \in DCap(q)..(DCap(q') - 1) : q'.arr[k] = Zero]_vars

\* Grow has reallocated a deque whose content of two or more elements starts
\* above an old non-zero value in slot 0 and ends below slots that are zero.
C23_Witness ==
    /\ call.op = "Grow" /\ moved.kase = "A"
    /\ q.head > 0 /\ DLen(q) >= 2 /\ q.arr[0] # Zero
    /\ \E c \in 1..(DCap(q) - 1) :
          /\ q.head + DLen(q) = c
          /\ \A k \in c..(DCap(q) - 1) : q.arr[k] = Zero

\* C24: the All iterator of Deque tests the index against the current Len()
\* in every round: when the consumer's body pops or resets the deque between
\* yields, every pair (i, x) it yields has i < Len() at the yield and x the
\* element at logical position i then, the indexes go up by one, and the
\* loop ends after no more rounds than the deque held elements at the call.
C24_AllRereadsLen ==
    /\ [][(call'.op = "Yield" /\ it.kind = "All" /\ variant = "Deque")
            => /\ ~panicked'
               /\ it.i < DLen(q)
               /\ it'.idx = Append(it.idx, it.i)
               /\ it'.out = Append(it.out, Content(q)[it.i + 1])
               /\ it'.i = it.i + 1
               /\ q' = q]_vars
    /\ []((it.kind = "All" /\ variant = "Deque")
            => (it.i = Len(it.out) /\ Len(it.out) <= Len(it.pre)))
    /\ (it.kind = "All" /\ it.st = "running" /\ variant = "Deque")
          ~> (it.st = "idle")

\* An All iterator of Deque has yielded pair 1 after the body popped the
\* front element: the value is the one that stood at position 2 at the call.
C24_Witness ==
    /\ variant = "Deque" /\ it.kind = "All" /\ call.op = "Yield"
    /\ Len(it.out) = 2 /\ Len(it.pre) >= 4 /\ DLen(q) = Len(it.pre) - 1
    /\ it.out[2] = it.pre[3] /\ it.pre[2] # it.pre[3]
    /\ Content(q) = Rest(it.pre, 1)

\* How often element x occurs in the heap's buffer.
Count(buf, x) == Cardinality({k \in DOMAIN buf : buf[k] = x})

\* C25: the sift passes neither lose nor duplicate elements: after Push(x)
\* every element occurs as often as before and x once more; after a
\* successful Pop returning x every element occurs as often as before and x
\* once less; also among elements with equal keys.
C25_HeapConservesElements ==
    [][/\ hcall'.op = "Push"
             => \A x \in Elems :
                   Count(h'.buf, x) =
                      Count(h.buf, x) + (IF x = hcall'.vals[1] THEN 1 ELSE 0)
       /\ (hcall'.op = "Pop" /\ hret'.ok)
             => \A x \in Elems :
                   Count(h'.buf, x) =
                      Count(h.buf, x) - (IF x = hret'.val THEN 1 ELSE 0)]_vars

\* A Push has sifted an element up to the root of a heap of four or more
\* elements that holds the same key under both tags and one element twice.
C25_Witness ==
    /\ hcall.op = "Push" /\ HLen(h) >= 4
    /\ h.buf[0] = hcall.vals[1]
    /\ \E j, k \in DOMAIN h.buf :
          j # k /\ h.buf[j][1] = h.buf[k][1] /\ h.buf[j][2] # h.buf[k][2]
    /\ \E j, k \in DOMAIN h.buf : j # k /\ h.buf[j] = h.buf[k]
    /\ \A k \in DOMAIN h.buf : k > 0 => compare(h.buf[0], h.buf[k]) < 0

\* The physical slots that hold the elements of d.
Live(d) == {toPhysicalIdx(d, i) : i \in 0..(d.len - 1)}

\* Copy c has destination and source ranges inside slices of capacity dcap
\* and scap, and both ranges have the same length.
CopyExact(c, dcap, scap) ==
    /\ SliceOK(c.lo, c.hi, dcap)
    /\ SliceOK(c.slo, c.shi, scap)
    /\ c.hi - c.lo = c.shi - c.slo

\* The copies of Grow(n) on d are exact, and none writes a slot that holds an
\* element other than those of the segment it moves.
GrowSafe(d, n, newCap) ==
    \A c \in GrowCopies(d, n, newCap) :
        /\ CopyExact(c, newCap, newCap)
        /\ (c.lo..(c.hi - 1)) \cap (Live(d) \ (c.slo..(c.shi - 1))) = {}

\* The copies of a push of V, after its Grow has left deque d, are exact, write
\* no slot that holds an element of d, and write Len(V) slots in all.
PushSafe(copies, d, V) ==
    /\ \A c \in copies :
          /\ CopyExact(c, d.cap, Len(V))
          /\ (c.lo..(c.hi - 1)) \cap Live(d) = {}
    /\ Cardinality(UNION {c.lo..(c.hi - 1) : c \in copies}) = Len(V)

\* C26: no call of PushFront, PushBack, Grow, PopFront or PopBack panics:
\* every slice and index expression it evaluates lies within [0, Cap());
\* every copy of Grow and of the pushes has a destination and a source of the
\* same length; no copy of a push writes a slot holding a live element, and
\* Grow overwrites live slots only of the segment it is moving; a pop reads a
\* slot inside the array.
C26_BoundsSafety ==
    [][~panicked
          => /\ ~panicked'
             /\ call'.op = "Grow" => GrowSafe(q, call'.n, DCap(q'))
             /\ call'.op = "PushFront"
                   => /\ GrowSafe(q, Len(call'.vals), DCap(q'))
                      /\ PushSafe(PushFrontCopies(q, call'.vals, DCap(q')),
                                  Grow(q, Len(call'.vals), DCap(q')), call'.vals)
             /\ call'.op = "PushBack"
                   => /\ GrowSafe(q, Len(call'.vals), DCap(q'))
                      /\ PushSafe(PushBackCopies(q, call'.vals, DCap(q'),
                                                 variant # "Deque"),
                                  Grow(q, Len(call'.vals), DCap(q')), call'.vals)
             /\ (call'.op = "PopFront" /\ ret'.ok)
                   => (0 <= q.head /\ q.head < DCap(q))
             /\ (call'.op = "PopBack" /\ ret'.ok)
                   => (0 <= toPhysicalIdx(q', DLen(q'))
                       /\ toPhysicalIdx(q', DLen(q')) < DCap(q))]_vars

\* A PushBack of two values has written one into the last slot and one into
\* slot 0 and has filled the deque.
C26_Witness ==
    /\ call.op = "PushBack" /\ Len(call.vals) = MaxPush /\ ~panicked
    /\ DLen(q) = DCap(q) /\ DCap(q) >= 4
    /\ toPhysicalIdx(q, DLen(q) - 1) = 0
    /\ moved = NoMove

====
